---- MODULE Spec2Model ----
(***************************************************************************)
(* A model of SoundWaveFactory (src/soundwave.py): a few factory           *)
(* instances, each with its current wave and note, sharing one file system,*)
(* and the calls create_note, save_wave, read_wave_from_txt and            *)
(* normalize_sound_waves.                                                  *)
(*                                                                         *)
(* Values.  A Python value is a record with a "kind" field: None, a str    *)
(* (a sequence of one-character strings, so that replace() and upper() are *)
(* computed character by character), or a numpy ndarray of dtype int16     *)
(* with its number of dimensions (np.loadtxt returns a 0-d array for a     *)
(* one-line file) and its samples.                                         *)
(*                                                                         *)
(* Reals.  Timestamps are rationals <<n, d>>; frequencies are integers in  *)
(* units of 10^-5 Hz; np.sin is evaluated on the phase rounded down to     *)
(* 1/PhaseSteps of a turn, in fixed point with SinScale = 2^16.            *)
(***************************************************************************)
EXTENDS Integers, Sequences, FiniteSets, TLC

VARIABLES factory, files, last

vars == <<factory, files, last>>

-----------------------------------------------------------------------------
(* Class constants *)

\* SAMPLING_RATE is 44100 in the class.  The model samples at ScaledRate Hz
\* so that a wave is a sequence TLC can enumerate; every length is derived
\* from it as in the class.
ScaledRate == 2

SAMPLING_RATE == ScaledRate

DURATION_SECONDS == 5

SOUND_ARRAY_LEN == SAMPLING_RATE * DURATION_SECONDS

MAX_AMPLITUDE == 8192

Int16Min == -32768

Int16Max == 32767

-----------------------------------------------------------------------------
(* Python values *)

NoneVal == [kind |-> "None"]

Str(chars) == [kind |-> "str", chars |-> chars]

NdArray(ndim, data) == [kind |-> "ndarray", ndim |-> ndim, data |-> data]

IsNone(v) == v.kind = "None"

Abs(x) == IF x < 0 THEN -x ELSE x

\* C-style integer division, truncating toward zero (float -> int narrowing)
TruncDiv(a, b) == IF a >= 0 THEN a \div b ELSE -((-a) \div b)

-----------------------------------------------------------------------------
(* The note table (a part of the 96 entries), frequencies in 10^-5 Hz *)

FreqUnit == 100000

NOTES ==
    [n \in {<<"0">>, <<"a", "4">>, <<"c", "#", "4">>} |->
        CASE n = <<"0">> -> 0
          [] n = <<"a", "4">> -> 44000000
          [] n = <<"c", "#", "4">> -> 55436530]

-----------------------------------------------------------------------------
(* Time base and sine *)

\* np.linspace(0, stop, num): num evenly spaced points, both ends included
Linspace(stop, num) ==
    [i \in 1..num |-> IF num = 1 THEN <<0, 1>> ELSE <<(i - 1) * stop, num - 1>>]

common_timeline == Linspace(DURATION_SECONDS, SOUND_ARRAY_LEN)

PhaseSteps == 32

SinScale == 65536

\* round(SinScale * sin(2 * pi * k / PhaseSteps)), k = 0 .. PhaseSteps - 1
SinTable ==
    <<0, 12785, 25080, 36410, 46341, 54491, 60547, 64277,
      65536, 64277, 60547, 54491, 46341, 36410, 25080, 12785,
      0, -12785, -25080, -36410, -46341, -54491, -60547, -64277,
      -65536, -64277, -60547, -54491, -46341, -36410, -25080, -12785>>

\* sin(2 * pi * frequency * t) in units of 1 / SinScale, t = <<n, d>> seconds
SinTurns(frequency, t) ==
    LET m == FreqUnit * t[2]
        r == ((frequency % m) * t[1]) % m
        k == (PhaseSteps * r) \div m
    IN  SinTable[k + 1]

\* The amplitude-doubling slip: 2**14 in place of MAX_AMPLITUDE
get_normed_sin_loud(timeline, frequency) ==
    [i \in DOMAIN timeline |-> 2 * MAX_AMPLITUDE * SinTurns(frequency, timeline[i])]

\* MAX_AMPLITUDE * np.sin(2 * np.pi * frequency * timeline), in 1 / SinScale
get_normed_sin(timeline, frequency) ==
    [i \in DOMAIN timeline |-> MAX_AMPLITUDE * SinTurns(frequency, timeline[i])]

-----------------------------------------------------------------------------
(* astype(np.int16) *)

Wrap16(x) == ((x - Int16Min) % 65536) + Int16Min

Saturate16(x) ==
    IF x < Int16Min THEN Int16Min ELSE IF x > Int16Max THEN Int16Max ELSE x

\* The int16 values a float whose truncation is x may be cast to: x itself
\* when it is representable; otherwise the cast is undefined in C and the
\* build decides (narrowing of the 32-bit conversion, or saturation).
CastInt16(x) ==
    IF Int16Min <= x /\ x <= Int16Max THEN {x} ELSE {Wrap16(x), Saturate16(x)}

\* The sequences whose i-th element is one of the casts of xs[i]
RECURSIVE CastAll(_)
CastAll(xs) ==
    IF xs = <<>> THEN {<<>>}
    ELSE {<<h>> \o t : h \in CastInt16(Head(xs)), t \in CastAll(Tail(xs))}

-----------------------------------------------------------------------------
(* str methods and formatting *)

\* str.replace(old, new) for one-character old and new
Replace(chars, old, new) ==
    [i \in DOMAIN chars |-> IF chars[i] = old THEN new ELSE chars[i]]

UpperChar(c) ==
    CASE c = "a" -> "A" [] c = "t" -> "T" [] c = "v" -> "V"
      [] c = "w" -> "W" [] c = "x" -> "X" [] OTHER -> c

\* str.upper()
Upper(chars) == [i \in DOMAIN chars |-> UpperChar(chars[i])]

DigitChars == <<"0", "1", "2", "3", "4", "5", "6", "7", "8", "9">>

RECURSIVE Digits(_)
Digits(n) ==
    IF n < 10 THEN <<DigitChars[n + 1]>>
    ELSE Digits(n \div 10) \o <<DigitChars[(n % 10) + 1]>>

\* "%d" % n
FormatInt(n) == IF n < 0 THEN <<"-">> \o Digits(-n) ELSE Digits(n)

IsDigit(c) == \E d \in DOMAIN DigitChars : DigitChars[d] = c

DigitVal(c) == (CHOOSE d \in DOMAIN DigitChars : DigitChars[d] = c) - 1

RECURSIVE DigitsVal(_)
DigitsVal(chars) ==
    IF chars = <<>> THEN 0
    ELSE 10 * DigitsVal(SubSeq(chars, 1, Len(chars) - 1)) + DigitVal(chars[Len(chars)])

\* One line of text to an int16: [ok |-> BOOLEAN, val |-> the value]
ParseInt16(chars) ==
    LET neg  == chars # <<>> /\ chars[1] = "-"
        body == IF neg THEN Tail(chars) ELSE chars
        wellFormed == /\ body # <<>>
                      /\ Len(body) <= 9
                      /\ \A i \in DOMAIN body : IsDigit(body[i])
        v == IF neg THEN -DigitsVal(body) ELSE DigitsVal(body)
    IN  IF wellFormed /\ Int16Min <= v /\ v <= Int16Max
        THEN [ok |-> TRUE, val |-> v]
        ELSE [ok |-> FALSE, val |-> 0]

-----------------------------------------------------------------------------
(* Files *)

Absent == [kind |-> "absent"]

\* What np.savetxt(fmt="%d") leaves in the file: one decimal integer per line
TextFile(lines) == [kind |-> "text", lines |-> lines]

\* What wavfile.write leaves: a RIFF header (one channel, 16 bit) and frames
WavFile(rate, data) == [kind |-> "wav", rate |-> rate, data |-> data]

\* A file opened for writing and closed before anything was written
EmptyFile == TextFile(<<>>)

SinWav == <<"_", "s", "i", "n", ".", "w", "a", "v">>

DotWav == <<".", "w", "a", "v">>

\* create_note's file name
NoteFileName(note, name) ==
    IF IsNone(name) THEN Replace(note \o SinWav, "#", "s")
    ELSE name.chars \o DotWav

\* np.savetxt(file_name, sound_wave, fmt="%d") for a 1-d array
savetxt(data) == TextFile([i \in DOMAIN data |-> FormatInt(data[i])])

\* np.loadtxt(file_name, dtype=np.int16): [ok, val].  A wav file's bytes do
\* not parse; a text file parses when every line does; zero lines give an
\* empty 1-d array, one line a 0-d array, more lines a 1-d array.
loadtxt(content) ==
    IF content.kind # "text" THEN [ok |-> FALSE, val |-> NoneVal]
    ELSE LET parsed == [i \in DOMAIN content.lines |-> ParseInt16(content.lines[i])]
             vals   == [i \in DOMAIN parsed |-> parsed[i].val]
         IN  IF \E i \in DOMAIN parsed : ~parsed[i].ok
             THEN [ok |-> FALSE, val |-> NoneVal]
             ELSE [ok |-> TRUE,
                   val |-> NdArray(IF Len(vals) = 1 THEN 0 ELSE 1, vals)]

-----------------------------------------------------------------------------
(* normalize_sound_waves: the arithmetic *)

\* np.abs on int16: the negation of -32768 wraps to -32768
AbsInt16(x) == Wrap16(Abs(x))

RECURSIVE SeqMax(_)
SeqMax(xs) ==
    IF Len(xs) = 1 THEN xs[1]
    ELSE LET m == SeqMax(Tail(xs)) IN IF xs[1] > m THEN xs[1] ELSE m

RECURSIVE SeqMin(_)
SeqMin(xs) ==
    IF Len(xs) = 1 THEN xs[1]
    ELSE LET m == SeqMin(Tail(xs)) IN IF xs[1] < m THEN xs[1] ELSE m

\* np.max(np.abs(trimmed_wave)) of a non-empty window
PeakOf(trimmed) == SeqMax([i \in DOMAIN trimmed |-> AbsInt16(trimmed[i])])

\* The pairs <<|s|, P>> of sample magnitudes of this model for which the
\* IEEE-754 double product s * (MAX_AMPLITUDE / P) is an integer in exact
\* arithmetic and falls just below that integer in double arithmetic.
FloatBelow == {<<49, 49>>, <<6811, 6811>>}

\* The truncation toward zero of the double s * (MAX_AMPLITUDE / peak)
ScaleTrunc(s, peak) ==
    LET num   == s * MAX_AMPLITUDE
        exact == TruncDiv(num, peak)
    IN  IF num % peak = 0 /\ <<Abs(s), peak>> \in FloatBelow
        THEN (IF s < 0 THEN exact + 1 ELSE exact - 1)
        ELSE exact

\* Lines 210-220 for one wave: the possible normalized_wave values
NormalizeOne(data, min_length) ==
    LET trimmed_wave  == SubSeq(data, 1, min_length)
        max_amplitude == PeakOf(trimmed_wave)
    IN  IF max_amplitude > 0
        THEN CastAll([i \in DOMAIN trimmed_wave |->
                         ScaleTrunc(trimmed_wave[i], max_amplitude)])
        ELSE {trimmed_wave}

\* wave.sound_wave if isinstance(wave, SoundWaveFactory) else wave
SoundWaveOf(fac, wave) ==
    IF wave.kind = "factory" THEN fac[wave.id].sound_wave ELSE wave

\* Whether len(x) raises TypeError: None and 0-d arrays have no len()
Unsized(x) == IsNone(x) \/ x.ndim = 0

ListOf(items) == [kind |-> "list", items |-> items]

RECURSIVE NormalizeAll(_, _)
NormalizeAll(arrays, min_length) ==
    IF arrays = <<>> THEN {<<>>}
    ELSE {<<NdArray(1, h)>> \o t :
             h \in NormalizeOne(Head(arrays).data, min_length),
             t \in NormalizeAll(Tail(arrays), min_length)}

Outcome(raised, out, ret) == [raised |-> raised, out |-> out, ret |-> ret]

\* normalize_sound_waves(*waves) on the factories fac: the possible outcomes
normalize_sound_waves(fac, waves) ==
    LET arrays == [i \in DOMAIN waves |-> SoundWaveOf(fac, waves[i])]
    IN  IF waves = <<>>
        THEN {Outcome("", "No waves provided.", NoneVal)}
        ELSE IF \E i \in DOMAIN arrays : Unsized(arrays[i])
        THEN {Outcome("TypeError", "", NoneVal)}
        ELSE LET min_length == SeqMin([i \in DOMAIN arrays |-> Len(arrays[i].data)])
             IN  IF min_length = 0
                 THEN {Outcome("ValueError", "", NoneVal)}
                 ELSE {Outcome("", "", ListOf(r)) : r \in NormalizeAll(arrays, min_length)}

-----------------------------------------------------------------------------
(* The calls *)

Call(op, f, args, raised, out, ret) ==
    [op |-> op, f |-> f, args |-> args, raised |-> raised, out |-> out, ret |-> ret]

\* get_soundwave falling back to silence: self.NOTES.get(note, 0)
get_soundwave_or_silence(timeline, note) ==
    [raised |-> "",
     value  |-> get_normed_sin(timeline, IF note \in DOMAIN NOTES THEN NOTES[note] ELSE 0)]

\* get_soundwave(timeline, note): raises ValueError for a note that is no key
\* of NOTES, else the real-valued wave in units of 1 / SinScale
get_soundwave(timeline, note) ==
    IF note \notin DOMAIN NOTES
    THEN [raised |-> "ValueError", value |-> <<>>]
    ELSE [raised |-> "", value |-> get_normed_sin(timeline, NOTES[note])]

\* values.astype(np.int16): truncation toward zero, then the cast; the
\* possible sample sequences (one, unless a value falls outside int16)
astype_int16(values) ==
    CastAll([i \in DOMAIN values |-> TruncDiv(values[i], SinScale)])

\* create_note(note, name, timeline) on factory f
create_note(f, note, name, timeline) ==
    LET tl    == IF IsNone(timeline) THEN common_timeline ELSE timeline.points
        args  == [note |-> note, name |-> name, timeline |-> timeline]
        waved == get_soundwave(tl, note)
    IN  IF waved.raised # ""
        THEN /\ factory' = [factory EXCEPT ![f].note = Str(note)]
             /\ UNCHANGED files
             /\ last' = Call("create_note", f, args, waved.raised, "", NoneVal)
        ELSE \E data \in astype_int16(waved.value) :
             /\ factory' = [factory EXCEPT ![f] =
                               [note |-> Str(note), sound_wave |-> NdArray(1, data)]]
             /\ files' = [files EXCEPT ![NoteFileName(note, name)] =
                               WavFile(SAMPLING_RATE, data)]
             /\ last' = Call("create_note", f, args, "", "", NdArray(1, data))

\* read_wave_from_txt clearing the wave before it tries to load
read_wave_from_txt_clears(f, file_name) ==
    LET args    == [file_name |-> file_name]
        cleared == [factory EXCEPT ![f].sound_wave = NoneVal]
    IN  IF files[file_name].kind # "absent"
        THEN LET loaded == loadtxt(files[file_name])
             IN  IF loaded.ok
                 THEN /\ factory' = [factory EXCEPT ![f].sound_wave = loaded.val]
                      /\ UNCHANGED files
                      /\ last' = Call("read_wave_from_txt", f, args, "",
                                      "Successfully loaded wave", NoneVal)
                 ELSE /\ factory' = cleared
                      /\ UNCHANGED files
                      /\ last' = Call("read_wave_from_txt", f, args, "",
                                      "Error loading wave", NoneVal)
        ELSE /\ factory' = cleared
             /\ UNCHANGED files
             /\ last' = Call("read_wave_from_txt", f, args, "FileNotFoundError",
                             "", NoneVal)

\* read_wave_from_txt forgetting the note of the wave it replaces
read_wave_from_txt_resets_note(f, file_name) ==
    LET args == [file_name |-> file_name]
    IN  IF files[file_name].kind # "absent"
        THEN LET loaded == loadtxt(files[file_name])
             IN  IF loaded.ok
                 THEN /\ factory' = [factory EXCEPT ![f] =
                                        [sound_wave |-> loaded.val, note |-> NoneVal]]
                      /\ UNCHANGED files
                      /\ last' = Call("read_wave_from_txt", f, args, "",
                                      "Successfully loaded wave", NoneVal)
                 ELSE /\ UNCHANGED <<factory, files>>
                      /\ last' = Call("read_wave_from_txt", f, args, "",
                                      "Error loading wave", NoneVal)
        ELSE /\ UNCHANGED <<factory, files>>
             /\ last' = Call("read_wave_from_txt", f, args, "FileNotFoundError",
                             "", NoneVal)

\* read_wave_from_txt(file_name) on factory f
read_wave_from_txt(f, file_name) ==
    LET args == [file_name |-> file_name]
    IN  IF files[file_name].kind # "absent"
        THEN LET loaded == loadtxt(files[file_name])
             IN  IF loaded.ok
                 THEN /\ factory' = [factory EXCEPT ![f].sound_wave = loaded.val]
                      /\ UNCHANGED files
                      /\ last' = Call("read_wave_from_txt", f, args, "",
                                      "Successfully loaded wave", NoneVal)
                 ELSE /\ UNCHANGED <<factory, files>>
                      /\ last' = Call("read_wave_from_txt", f, args, "",
                                      "Error loading wave", NoneVal)
        ELSE /\ UNCHANGED <<factory, files>>
             /\ last' = Call("read_wave_from_txt", f, args, "FileNotFoundError",
                             "", NoneVal)

\* save_wave(file_name, file_type) on factory f.  Both writers open (and so
\* truncate) the file before they look at the array, and both reject a 0-d
\* array: wavfile.write with IndexError, np.savetxt with ValueError.
save_wave(f, file_name, file_type) ==
    LET args       == [file_name |-> file_name, file_type |-> file_type]
        sound_wave == factory[f].sound_wave
    IN  /\ UNCHANGED factory
        /\ IF IsNone(sound_wave)
           THEN /\ UNCHANGED files
                /\ last' = Call("save_wave", f, args, "", "No sound wave to save.", NoneVal)
           ELSE IF Upper(file_type) = <<"W", "A", "V">>
           THEN IF sound_wave.ndim = 0
                THEN /\ files' = [files EXCEPT ![file_name] = EmptyFile]
                     /\ last' = Call("save_wave", f, args, "IndexError", "", NoneVal)
                ELSE /\ files' = [files EXCEPT ![file_name] =
                                     WavFile(SAMPLING_RATE, sound_wave.data)]
                     /\ last' = Call("save_wave", f, args, "", "Wave saved as WAV file",
                                     NoneVal)
           ELSE IF sound_wave.ndim = 0
                THEN /\ files' = [files EXCEPT ![file_name] = EmptyFile]
                     /\ last' = Call("save_wave", f, args, "ValueError", "", NoneVal)
                ELSE /\ files' = [files EXCEPT ![file_name] = savetxt(sound_wave.data)]
                     /\ last' = Call("save_wave", f, args, "", "Wave saved as text file",
                                     NoneVal)

\* normalize_sound_waves storing each normalized wave back into the factory
\* it was taken from
normalize_in_place(f, waves) ==
    \E o \in normalize_sound_waves(factory, waves) :
        /\ factory' = [g \in DOMAIN factory |->
               IF o.ret.kind = "list" /\ \E i \in DOMAIN waves : waves[i] = [kind |-> "factory", id |-> g]
               THEN [factory[g] EXCEPT !.sound_wave =
                        o.ret.items[CHOOSE i \in DOMAIN waves :
                                        waves[i] = [kind |-> "factory", id |-> g]]]
               ELSE factory[g]]
        /\ UNCHANGED files
        /\ last' = Call("normalize_sound_waves", f, [waves |-> waves],
                        o.raised, o.out, o.ret)

\* normalize_sound_waves(*waves) called on factory f
normalize(f, waves) ==
    \E o \in normalize_sound_waves(factory, waves) :
        /\ UNCHANGED <<factory, files>>
        /\ last' = Call("normalize_sound_waves", f, [waves |-> waves],
                        o.raised, o.out, o.ret)

-----------------------------------------------------------------------------------------------------------------------------------------------------
(* Arguments *)

Factories == {"f1", "f2"}

FactoryRef(f) == [kind |-> "factory", id |-> f]

Timeline(points) == [kind |-> "timeline", points |-> points]

\* Sequences over S of length at most n
RECURSIVE SeqsUpTo(_, _)
SeqsUpTo(S, n) ==
    IF n = 0 THEN {<<>>}
    ELSE LET shorter == SeqsUpTo(S, n - 1)
         IN  shorter \cup {Append(q, x) : q \in shorter, x \in S}

\* "A4" is not a key ("a4" is): the lookup is verbatim
NoteArgs == {<<"c", "#", "4">>, <<"0">>, <<"A", "4">>}

\* name="0_sin" names the file that note "0" is written to by default
NameArgs == {NoneVal, Str(<<"0", "_", "s", "i", "n">>)}

TimePoints == {<<1, 8>>}

MaxCustomLen == 1

TimelineArgs == {NoneVal} \cup {Timeline(t) : t \in SeqsUpTo(TimePoints, MaxCustomLen)}

FileNames == {<<"w", ".", "t", "x", "t">>}

FileTypes == {<<"t", "x", "t">>, <<"w", "a", "v">>, <<"W", "a", "V">>}

Paths == FileNames \cup {NoteFileName(n, m) : n \in NoteArgs, m \in NameArgs}

RawSamples == {Int16Min, 0, 49, 100}

MaxRawLen == 2

RawWaves == {NdArray(1, d) : d \in SeqsUpTo(RawSamples, MaxRawLen)}

-----------------------------------------------------------------------------
(* A session of calls on one factory *)

Init ==
    /\ factory = [f \in Factories |-> [sound_wave |-> NoneVal, note |-> NoneVal]]
    /\ files = [p \in Paths |-> Absent]
    /\ last = Call("__init__", "f1", [none |-> TRUE], "", "", NoneVal)

Next ==
    \/ \E note \in NoteArgs, name \in NameArgs, tl \in TimelineArgs :
           create_note("f1", note, name, tl)
    \/ \E file_name \in FileNames : read_wave_from_txt("f1", file_name)
    \/ \E file_name \in FileNames, file_type \in FileTypes :
           save_wave("f1", file_name, file_type)

Spec == Init /\ [][Next]_vars

-----------------------------------------------------------------------------
(* Calls on several factories, with the default file name *)

NextInstances ==
    \/ \E f \in Factories, note \in {<<"c", "#", "4">>, <<"A", "4">>},
          tl \in TimelineArgs :
           create_note(f, note, NoneVal, tl)
    \/ \E f \in Factories, file_name \in FileNames : read_wave_from_txt(f, file_name)
    \/ \E f \in Factories, file_name \in FileNames :
           save_wave(f, file_name, <<"t", "x", "t">>)
    \/ \E f \in Factories, waves \in SeqsUpTo({FactoryRef(g) : g \in Factories}, 2) :
           normalize(f, waves)

SpecInstances == Init /\ [][NextInstances]_vars

-----------------------------------------------------------------------------
(* normalize_sound_waves on raw waves and on factories holding a wave *)

\* Waves a factory can hold: c#4 on the default time base, c#4 at one
\* timestamp, and that one-sample wave saved as text and read back
HeldWaves ==
    LET cs4 == <<"c", "#", "4">>
        one == astype_int16(get_soundwave(<<<<1, 8>>>>, cs4).value)
        all == astype_int16(get_soundwave(common_timeline, cs4).value)
    IN  {NdArray(1, d) : d \in all \cup one} \cup {loadtxt(savetxt(d)).val : d \in one}

InitNormalize ==
    /\ \E w \in HeldWaves :
          factory = [f \in Factories |->
                        [sound_wave |-> IF f = "f1" THEN w ELSE NoneVal,
                         note |-> IF f = "f1" THEN Str(<<"c", "#", "4">>) ELSE NoneVal]]
    /\ files = [p \in Paths |-> Absent]
    /\ last = Call("__init__", "f1", [none |-> TRUE], "", "", NoneVal)

NextNormalize ==
    \E waves \in SeqsUpTo(RawWaves \cup {FactoryRef("f1")}, 2) : normalize("f2", waves)

SpecNormalize == InitNormalize /\ [][NextNormalize]_vars

-----------------------------------------------------------------------------
(* Properties *)

IsWavAnyCase(chars) ==
    /\ Len(chars) = 3
    /\ chars[1] \in {"w", "W"} /\ chars[2] \in {"a", "A"} /\ chars[3] \in {"v", "V"}

MaxAbs(xs) == SeqMax([i \in DOMAIN xs |-> Abs(xs[i])])

\* The arrays a normalize call was given, factories resolved to their waves
GivenArrays == [i \in DOMAIN last.args.waves |-> SoundWaveOf(factory, last.args.waves[i])]

GivenMinLength == SeqMin([i \in DOMAIN GivenArrays |-> Len(GivenArrays[i].data)])

NormalizeCalled == last.op = "normalize_sound_waves" /\ last.args.waves # <<>>

\* C1: a normalize call on a non-empty list of inputs, each a raw sample
\* sequence or a factory holding a wave, returns one output per input, each of
\* length min_length, the minimum sample count over the inputs.
C1_OnePerInputOfMinLength ==
    (/\ NormalizeCalled
     /\ \A i \in DOMAIN GivenArrays : ~IsNone(GivenArrays[i]) /\ GivenArrays[i].ndim = 1)
        => /\ last.raised = ""
           /\ last.ret.kind = "list"
           /\ Len(last.ret.items) = Len(last.args.waves)
           /\ \A i \in DOMAIN last.ret.items :
                  /\ last.ret.items[i].ndim = 1
                  /\ Len(last.ret.items[i].data) = GivenMinLength

\* C2: for every input whose peak absolute sample over the first min_length
\* samples is P > 0, the output's peak absolute sample is MAX_AMPLITUDE and
\* every output sample lies in [-MAX_AMPLITUDE, MAX_AMPLITUDE].
C2_PeakIsMaxAmplitude ==
    (NormalizeCalled /\ last.ret.kind = "list")
        => \A i \in DOMAIN last.ret.items :
               LET window == SubSeq(GivenArrays[i].data, 1, GivenMinLength)
                   out    == last.ret.items[i].data
               IN  MaxAbs(window) > 0
                       => /\ MaxAbs(out) = MAX_AMPLITUDE
                          /\ \A j \in DOMAIN out : Abs(out[j]) <= MAX_AMPLITUDE

\* C3: save_wave(path, "txt") followed by read_wave_from_txt(path) on the
\* same factory leaves its current wave a sample sequence of the same length,
\* elementwise equal to the wave that was saved.
C3_TextRoundTrip ==
    [][(/\ last.op = "save_wave"
        /\ last.out = "Wave saved as text file"
        /\ last'.op = "read_wave_from_txt"
        /\ last'.f = last.f
        /\ last'.args.file_name = last.args.file_name)
          => /\ last'.out = "Successfully loaded wave"
             /\ factory'[last.f].sound_wave.ndim = 1
             /\ factory'[last.f].sound_wave.data = factory[last.f].sound_wave.data]_vars

\* C4: a read_wave_from_txt that fails leaves the current wave unchanged: a
\* missing path raises FileNotFoundError; a file that is no list of int16
\* lines is reported and nothing is raised.
C4_FailedReadKeepsWave ==
    [][last'.op = "read_wave_from_txt"
          => LET content == files[last'.args.file_name]
             IN  /\ content.kind = "absent"
                    => /\ last'.raised = "FileNotFoundError"
                       /\ factory' = factory
                 /\ content.kind = "wav"
                    => /\ last'.raised = ""
                       /\ last'.out = "Error loading wave"
                       /\ factory' = factory]_vars

C4_Witness ==
    /\ last.op = "read_wave_from_txt"
    /\ last.out = "Error loading wave"
    /\ files[last.args.file_name].kind = "wav"
    /\ ~IsNone(factory[last.f].sound_wave)

\* C5: create_note on a note of the table returns and stores a sample
\* sequence as long as the time base used (SAMPLING_RATE * DURATION_SECONDS
\* for the default one), every sample within MAX_AMPLITUDE of zero, and all
\* zero for the note "0".
C5_CreatedWaveBounded ==
    last.op = "create_note"
        => IF last.args.note \in DOMAIN NOTES
           THEN LET wave == factory[last.f].sound_wave
                    used == IF IsNone(last.args.timeline)
                            THEN SAMPLING_RATE * DURATION_SECONDS
                            ELSE Len(last.args.timeline.points)
                IN  /\ last.raised = ""
                    /\ last.ret = wave
                    /\ wave.kind = "ndarray" /\ wave.ndim = 1
                    /\ Len(wave.data) = used
                    /\ \A i \in DOMAIN wave.data : Abs(wave.data[i]) <= MAX_AMPLITUDE
                    /\ last.args.note = <<"0">>
                          => \A i \in DOMAIN wave.data : wave.data[i] = 0
           ELSE last.raised # ""

C5_Witness ==
    /\ last.op = "create_note"
    /\ last.raised = ""
    /\ IsNone(last.args.timeline)
    /\ Len(last.ret.data) = SAMPLING_RATE * DURATION_SECONDS
    /\ \E i \in DOMAIN last.ret.data : Abs(last.ret.data[i]) > MAX_AMPLITUDE \div 2

\* C6: create_note with a note that is not a key of the table, compared
\* verbatim, raises, and creates or overwrites no file.
C6_UnknownNoteWritesNothing ==
    [][(last'.op = "create_note" /\ last'.args.note \notin DOMAIN NOTES)
          => /\ last'.raised = "ValueError"
             /\ files' = files]_vars

C6_Witness ==
    /\ last.op = "create_note"
    /\ last.args.note = <<"A", "4">>
    /\ last.raised = "ValueError"
    /\ files[NoteFileName(<<"A", "4">>, NoneVal)].kind = "absent"
    /\ files[NoteFileName(<<"0">>, NoneVal)].kind = "wav"

\* C7: save_wave raises nothing; with no current wave it writes no file and
\* the factory still has no wave; with a wave, a selector spelling "wav" in
\* any letter case writes the audio file of the samples and any other
\* selector writes them as text, one integer per line.
C7_SaveWave ==
    [][last'.op = "save_wave"
          => LET wave == factory[last'.f].sound_wave
                 path == last'.args.file_name
             IN  /\ last'.raised = ""
                 /\ IF IsNone(wave)
                    THEN files' = files /\ IsNone(factory'[last'.f].sound_wave)
                    ELSE IF IsWavAnyCase(last'.args.file_type)
                    THEN files'[path] = WavFile(SAMPLING_RATE, wave.data)
                    ELSE /\ files'[path].kind = "text"
                         /\ files'[path].lines =
                                [i \in DOMAIN wave.data |-> FormatInt(wave.data[i])]]_vars

\* C8: normalize_sound_waves changes no factory's wave or note, and a call on
\* one factory leaves every other factory's wave and note unchanged.
C8_OtherFactoriesUntouched ==
    [][/\ last'.op = "normalize_sound_waves" => factory' = factory
       /\ \A g \in Factories : g # last'.f => factory'[g] = factory[g]]_vars

C8_Witness ==
    /\ last.op = "normalize_sound_waves"
    /\ last.ret.kind = "list"
    /\ \E i \in DOMAIN last.args.waves :
          /\ last.args.waves[i].kind = "factory"
          /\ last.args.waves[i].id # last.f
          /\ last.ret.items[i] # factory[last.args.waves[i].id].sound_wave

\* C9: a successful read_wave_from_txt makes the file's samples the current
\* wave and leaves the note as it was.
C9_LoadKeepsNote ==
    [][(last'.op = "read_wave_from_txt" /\ last'.out = "Successfully loaded wave")
          => LET lines == files[last'.args.file_name].lines
                 wave  == factory'[last'.f].sound_wave
             IN  /\ factory'[last'.f].note = factory[last'.f].note
                 /\ wave.kind = "ndarray"
                 /\ Len(wave.data) = Len(lines)
                 /\ \A i \in DOMAIN lines : FormatInt(wave.data[i]) = lines[i]]_vars

C9_Witness ==
    /\ last.op = "read_wave_from_txt"
    /\ last.out = "Successfully loaded wave"
    /\ last.f = "f2"
    /\ IsNone(factory["f2"].note)
    /\ ~IsNone(factory["f2"].sound_wave)
    /\ factory["f1"].note = Str(<<"c", "#", "4">>)

\* C10: the stored note of every factory is absent or a key of the note
\* table (a create_note that fails changes nothing).
C10_NoteIsAKey ==
    \A f \in Factories :
        IsNone(factory[f].note) \/ factory[f].note.chars \in DOMAIN NOTES
====
